---- MODULE Spec2Model ----
(***************************************************************************)
(* Model of quansat-dev/dot: the X11 RECORD dispatch loop and decoder of   *)
(* src/platform/linux/x11.rs (record, get_window_class, get_active_window).*)
(* Buffers are byte sequences; the decoder is modelled on the bytes.       *)
(***************************************************************************)
EXTENDS Integers, Sequences, FiniteSets, TLC

(* ---------------- bounds of the model ---------------- *)
\* number of reply units read from the data connection
MaxUnits == 3
\* number of iterations of the decode loop followed inside one unit
MaxIter == 3
\* number of wire records concatenated in one generated buffer
MaxRecs == 2

(* ---------------- program constants ---------------- *)
START_OF_DATA == 4
RECORD_FROM_SERVER == 0
KEY_PRESS_EVENT == 2
BUTTON_PRESS_EVENT == 4
MOTION_NOTIFY_EVENT == 6
FOCUS_IN_EVENT == 9
FOCUS_OUT_EVENT == 10
\* fixed size of a core event or error
EventSize == 32

(* ---------------- byte helpers ---------------- *)
Byte == 0..255

RECURSIVE LE(_, _)
\* little-endian encoding of n in k bytes
LE(n, k) == IF k = 0 THEN <<>> ELSE <<n % 256>> \o LE(n \div 256, k - 1)

RECURSIVE Zeros(_)
Zeros(k) == IF k = 0 THEN <<>> ELSE <<0>> \o Zeros(k - 1)

\* two's complement of a 16-bit signed value, as the server writes it
ToU16(v) == (v + 65536) % 65536

\* data[n..] of a Rust slice (0-based n); callers check n <= Len(s)
SliceFrom(s, n) == SubSeq(s, n + 1, Len(s))

\* Option<T>
None == <<>>
Some(x) == <<x>>

(* ---------------- x11rb parsers (try_parse) ---------------- *)
\* u8/u16/u32/i16 at 0-based offset o of s, native (little) endian
U8At(s, o) == s[o + 1]
U16At(s, o) == s[o + 1] + 256 * s[o + 2]
U32At(s, o) == s[o + 1] + 256 * s[o + 2] + 65536 * s[o + 3] + 16777216 * s[o + 4]
I16At(s, o) == IF U16At(s, o) >= 32768 THEN U16At(s, o) - 65536 ELSE U16At(s, o)

\* u32::try_parse: needs 4 bytes
ParseU32(s) ==
    IF Len(s) < 4 THEN [ok |-> FALSE, value |-> 0]
    ELSE [ok |-> TRUE, value |-> U32At(s, 0)]

\* KeyPressEvent / ButtonPressEvent / MotionNotifyEvent :: try_parse
\* (same wire layout): the fields record() uses, and the remaining slice
ParseInputEvent(s) ==
    IF Len(s) < EventSize
    THEN [ok |-> FALSE, detail |-> 0, root |-> 0, event |-> 0,
          root_x |-> 0, root_y |-> 0, remaining |-> <<>>]
    ELSE [ok |-> TRUE, detail |-> U8At(s, 1), root |-> U32At(s, 8),
          event |-> U32At(s, 12), root_x |-> I16At(s, 20),
          root_y |-> I16At(s, 22), remaining |-> SliceFrom(s, EventSize)]

\* FocusInEvent / FocusOutEvent :: try_parse
ParseFocusEvent(s) ==
    IF Len(s) < EventSize
    THEN [ok |-> FALSE, detail |-> 0, root |-> 0, event |-> 0,
          root_x |-> 0, root_y |-> 0, remaining |-> <<>>]
    ELSE [ok |-> TRUE, detail |-> U8At(s, 1), root |-> 0,
          event |-> U32At(s, 4), root_x |-> 0, root_y |-> 0,
          remaining |-> SliceFrom(s, EventSize)]

(* ---------------- std::str::from_utf8 ---------------- *)
Cont(b) == b >= 128 /\ b <= 191

RECURSIVE ValidUtf8(_)
\* UTF-8 well-formedness as core::str::from_utf8 checks it
ValidUtf8(s) ==
    IF s = <<>> THEN TRUE
    ELSE LET b == s[1] n == Len(s) IN
         IF b < 128 THEN ValidUtf8(Tail(s))
         ELSE IF b >= 194 /\ b <= 223
              THEN n >= 2 /\ Cont(s[2]) /\ ValidUtf8(SliceFrom(s, 2))
         ELSE IF b >= 224 /\ b <= 239
              THEN /\ n >= 3
                   /\ Cont(s[2]) /\ Cont(s[3])
                   /\ (b = 224 => s[2] >= 160)
                   /\ (b = 237 => s[2] <= 159)
                   /\ ValidUtf8(SliceFrom(s, 3))
         ELSE IF b >= 240 /\ b <= 244
              THEN /\ n >= 4
                   /\ Cont(s[2]) /\ Cont(s[3]) /\ Cont(s[4])
                   /\ (b = 240 => s[2] >= 144)
                   /\ (b = 244 => s[2] <= 143)
                   /\ ValidUtf8(SliceFrom(s, 4))
         ELSE FALSE

(* ---------------- the X server as the control connection sees it -------- *)
\* window handles used by the generated traffic (all below 2^31)
Wid == [terminal |-> 4194305, root |-> 1089, browser |-> 6291463,
        noclass |-> 8388609, badtext |-> 10485770, accent |-> 12582924,
        bareroot |-> 1090, bar |-> 14680079, swaybg |-> 16777233]

Terminal == <<84, 101, 114, 109, 105, 110, 97, 108>>
Browser == <<66, 114, 111, 119, 115, 101, 114>>
RootClass == <<82, 111, 111, 116>>
\* "I3bar" and "swaybg"
I3bar == <<73, 51, 98, 97, 114>>
Swaybg == <<115, 119, 97, 121, 98, 103>>

\* WmClass::get(conn, window)?.reply_unchecked()? then wm_class.class():
\* None when the window has no WM_CLASS, else the bytes of the class part
WmClassReply(window) ==
    CASE window = Wid.terminal -> Some(Terminal)
      [] window = Wid.browser -> Some(Browser)
      [] window = Wid.root -> Some(RootClass)
      [] window = Wid.badtext -> Some(<<66, 255, 114>>)
      [] window = Wid.accent -> Some(<<67, 97, 102, 195, 169>>)
      [] window = Wid.bar -> Some(I3bar)
      [] window = Wid.swaybg -> Some(Swaybg)
      [] OTHER -> None

\* GetPropertyReply for _NET_ACTIVE_WINDOW on a root window
ActiveWindowReply(root) ==
    CASE root = Wid.root -> [format |-> 32, value |-> LE(Wid.browser, 4)]
      [] root = Wid.bareroot -> [format |-> 32, value |-> <<>>]
      [] OTHER -> [format |-> 0, value |-> <<>>]

(* ---------------- Window Resolver ---------------- *)
\* get_window_class without the from_utf8 check
get_window_class_Lossy(window) ==
    LET wm_class == WmClassReply(window) IN
    IF wm_class = None THEN None ELSE Some(wm_class[1])

\* get_window_class: Ok(None) for no property or non-UTF-8 class bytes,
\* Ok(Some(class.to_string())) otherwise
get_window_class(window) ==
    LET wm_class == WmClassReply(window) IN
    IF wm_class = None THEN None
    ELSE IF ValidUtf8(wm_class[1]) THEN Some(wm_class[1]) ELSE None

\* get_active_window with unwrap_or(0) in place of the two unwraps
get_active_window_Lenient(root) ==
    LET reply == ActiveWindowReply(root) IN
    IF reply.format # 32 \/ Len(reply.value) < 4 THEN [ok |-> TRUE, win |-> 0]
    ELSE [ok |-> TRUE, win |-> U32At(reply.value, 0)]

\* get_active_window: value32() is None unless format = 32; next() is None
\* on an empty value; both are unwrapped
get_active_window(root) ==
    LET reply == ActiveWindowReply(root) IN
    IF reply.format # 32 THEN [ok |-> FALSE, win |-> 0]
    ELSE IF Len(reply.value) < 4 THEN [ok |-> FALSE, win |-> 0]
    ELSE [ok |-> TRUE, win |-> U32At(reply.value, 0)]

(* ---------------- generated traffic ---------------- *)
\* descriptor of one wire record
Rec(tag, detail, root, event, x, y, len) ==
    [tag |-> tag, detail |-> detail, root |-> root, event |-> event,
     x |-> x, y |-> y, len |-> len]

KeyRec == Rec(KEY_PRESS_EVENT, 38, Wid.root, Wid.terminal, 300, -2, 0)
ButtonRec == Rec(BUTTON_PRESS_EVENT, 1, Wid.root, Wid.noclass, 5, 6, 0)
MotionRec == Rec(MOTION_NOTIFY_EVENT, 0, Wid.root, Wid.terminal, 10, 20, 0)
BareMotionRec == Rec(MOTION_NOTIFY_EVENT, 0, Wid.bareroot, Wid.terminal, -1, 7, 0)
FocusInRec == Rec(FOCUS_IN_EVENT, 0, 0, Wid.badtext, 0, 0, 0)
FocusOutRec == Rec(FOCUS_OUT_EVENT, 0, 0, Wid.accent, 0, 0, 0)
\* KeyRelease: a core event record() has no arm for
OtherRec == Rec(3, 38, Wid.root, Wid.terminal, 300, -2, 0)
\* tag 0 with length field 1: a unit of 36 bytes
ReplyRec == Rec(0, 0, 0, 0, 0, 0, 1)

\* the records the generated buffers are built from
RecSet == {KeyRec, ButtonRec, MotionRec, FocusInRec, FocusOutRec, OtherRec,
           ReplyRec}

RecognizedTags == {KEY_PRESS_EVENT, BUTTON_PRESS_EVENT, MOTION_NOTIFY_EVENT,
                   FOCUS_IN_EVENT, FOCUS_OUT_EVENT}

\* the bytes the server sends for a record
Encode(r) ==
    IF r.tag = 0
    THEN <<0, 0>> \o LE(7, 2) \o LE(r.len, 4) \o Zeros(24) \o Zeros(4 * r.len)
    ELSE IF r.tag \in {FOCUS_IN_EVENT, FOCUS_OUT_EVENT}
    THEN <<r.tag, r.detail>> \o LE(7, 2) \o LE(r.event, 4) \o Zeros(24)
    ELSE <<r.tag, r.detail>> \o LE(7, 2) \o LE(1000, 4) \o LE(r.root, 4)
         \o LE(r.event, 4) \o LE(0, 4) \o LE(ToU16(r.x), 2) \o LE(ToU16(r.y), 2)
         \o LE(ToU16(3), 2) \o LE(ToU16(4), 2) \o LE(0, 2) \o <<1, 0>>

\* wire size of a record
UnitLen(r) == IF r.tag = 0 THEN 4 * r.len + EventSize ELSE EventSize

RECURSIVE EncodeAll(_)
EncodeAll(rs) == IF rs = <<>> THEN <<>> ELSE Encode(rs[1]) \o EncodeAll(Tail(rs))

RECURSIVE OffsetOf(_, _)
\* byte offset of the i-th record (1-based) of rs; OffsetOf(rs, Len(rs)+1)
\* is the length of the buffer
OffsetOf(rs, i) == IF i <= 1 THEN 0 ELSE OffsetOf(rs, i - 1) + UnitLen(rs[i - 1])

\* sequences of at most n records
RecSeqs(n) == UNION {[1..k -> RecSet] : k \in 0..n}

\* one item of the reply stream: the EnableContextReply fields record() reads,
\* with the records its data was generated from and the number of bytes cut
\* from the end of the buffer (0: complete units only)
Unit(swapped, category, rs, cut) ==
    [client_swapped |-> swapped, category |-> category,
     data |-> SubSeq(EncodeAll(rs), 1, Len(EncodeAll(rs)) - cut),
     recs |-> rs, cut |-> cut]

\* from-server replies holding complete records
FromServerUnits ==
    {Unit(FALSE, RECORD_FROM_SERVER, rs, 0) : rs \in RecSeqs(MaxRecs)}

\* from-server replies whose last record is cut short, and a motion event
\* on a root window without _NET_ACTIVE_WINDOW
HardUnits ==
    {Unit(FALSE, RECORD_FROM_SERVER, <<KeyRec>>, 20),
     Unit(FALSE, RECORD_FROM_SERVER, <<OtherRec>>, 20),
     Unit(FALSE, RECORD_FROM_SERVER, <<ReplyRec>>, 20),
     Unit(FALSE, RECORD_FROM_SERVER, <<ReplyRec>>, 34),
     Unit(FALSE, RECORD_FROM_SERVER, <<FocusOutRec, KeyRec>>, 20),
     Unit(FALSE, RECORD_FROM_SERVER, <<ReplyRec, KeyRec>>, 20),
     Unit(FALSE, RECORD_FROM_SERVER, <<BareMotionRec>>, 0),
     Unit(FALSE, RECORD_FROM_SERVER, <<KeyRec, BareMotionRec>>, 0)}

\* single events on further windows: a motion event on a root window whose
\* _NET_ACTIVE_WINDOW has the wrong format, a motion event with a negative
\* coordinate, a button press and a focus-in on windows of the window manager
WrongMotionRec == Rec(MOTION_NOTIFY_EVENT, 0, Wid.noclass, Wid.terminal, 3, 4, 0)
FarMotionRec == Rec(MOTION_NOTIFY_EVENT, 0, Wid.root, Wid.terminal, -1, 300, 0)
BarButtonRec == Rec(BUTTON_PRESS_EVENT, 3, Wid.root, Wid.bar, 5, 6, 0)
SwayFocusRec == Rec(FOCUS_IN_EVENT, 0, 0, Wid.swaybg, 0, 0, 0)

MoreUnits ==
    {Unit(FALSE, RECORD_FROM_SERVER, <<r>>, 0) :
        r \in {WrongMotionRec, FarMotionRec, BarButtonRec, SwayFocusRec}}

StartUnit == Unit(FALSE, START_OF_DATA, <<>>, 0)

\* categories 1 (FromClient) and 5 (EndOfData) have no arm in record()
OtherUnits ==
    {Unit(FALSE, 1, <<KeyRec>>, 0), Unit(FALSE, 5, <<>>, 0)}

SwappedUnits ==
    {Unit(TRUE, RECORD_FROM_SERVER, <<KeyRec>>, 0),
     Unit(TRUE, RECORD_FROM_SERVER, <<KeyRec, MotionRec>>, 0),
     Unit(TRUE, START_OF_DATA, <<>>, 0),
     Unit(TRUE, 1, <<KeyRec>>, 0)}

Units ==
    FromServerUnits \cup HardUnits \cup MoreUnits \cup {StartUnit}
    \cup OtherUnits \cup SwappedUnits

(* ---------------- state ---------------- *)
VARIABLES
    pc,      \* where record() is: "start", "recv" (at the for loop, waiting
             \* for the next reply), "decode" (inside the while loop),
             \* "stopped" (the for loop ended), "noext", "panicked"
    nread,   \* number of replies taken from the stream
    reply,   \* the reply being handled (the last one taken)
    stream,  \* the slice `stream` of the decode loop
    ops,     \* what record() did for the current reply, in order
    sink,    \* the events passed to callback, in order, since the start
    scen,    \* how far the replies read so far follow the end-to-end stream
    atoms,   \* number of Atoms::new(conn) round trips made since the start
    counter, \* main's Mutex<i32> counter
    locks,   \* number of counter.lock() calls made by main's closure
    final    \* the count main logs after thread::scope, -1 before

vars == <<pc, nread, reply, stream, ops, sink, scen, atoms, counter, locks, final>>

\* the state of main.rs
mainvars == <<counter, locks, final>>

NoReply == [client_swapped |-> FALSE, category |-> -1, data |-> <<>>,
            recs |-> <<>>, cut |-> 0]

\* event::Event without its timestamp
Event(app, kind, code, x, y) ==
    [app |-> app, kind |-> kind, code |-> code, x |-> x, y |-> y]

NoEvent == Event(<<>>, "", 0, 0, 0)

\* one entry of ops: "read" (the tag byte read by match data[0]), "active"
\* (get_active_window), "class" (get_window_class), "sink" (callback), "log"
Op(op, lvl, tag, win, res, ev) ==
    [op |-> op, lvl |-> lvl, tag |-> tag, win |-> win, res |-> res, ev |-> ev,
     cur |-> 0, at |-> 0]

ReadOp(tag) == Op("read", "", tag, 0, None, NoEvent)
LogOp(lvl) == Op("log", lvl, 0, 0, None, NoEvent)

\* result of one iteration of the while loop
Iter(panic, strm, done) == [panic |-> panic, stream |-> strm, ops |-> done]

(* ---------------- the arms of match data[0] ---------------- *)
\* if let Some(class) = get_window_class(&ctrl_conn, window).unwrap()
\*     { callback(&Event { app: class, data }) }
Report(window, kind, code, x, y) ==
    LET class == get_window_class(window) IN
    <<Op("class", "", 0, window, class, NoEvent)>> \o
    (IF class # None
     THEN <<Op("sink", "", 0, 0, None, Event(class[1], kind, code, x, y))>>
     ELSE <<>>)

\* the reply arm with the 32-byte header left out of the length
ReplyArm_NoHeader(data) ==
    LET p == IF Len(data) < 4 THEN [ok |-> FALSE, value |-> 0]
             ELSE ParseU32(SliceFrom(data, 4))
        length == p.value * 4
    IN  IF ~p.ok \/ length > Len(data)
        THEN Iter(TRUE, <<>>, <<ReadOp(0)>>)
        ELSE Iter(FALSE, SliceFrom(data, length), <<ReadOp(0), LogOp("warn")>>)

\* 0 => a reply of length * 4 + 32 bytes, logged and skipped
ReplyArm(data) ==
    LET p == IF Len(data) < 4 THEN [ok |-> FALSE, value |-> 0]
             ELSE ParseU32(SliceFrom(data, 4))
        length == p.value * 4 + 32
    IN  IF ~p.ok \/ length > Len(data)
        THEN Iter(TRUE, <<>>, <<ReadOp(0)>>)
        ELSE Iter(FALSE, SliceFrom(data, length), <<ReadOp(0), LogOp("warn")>>)

KeyPressArm(data) ==
    LET p == ParseInputEvent(data) IN
    IF ~p.ok THEN Iter(TRUE, <<>>, <<ReadOp(data[1])>>)
    ELSE Iter(FALSE, p.remaining,
              <<ReadOp(data[1])>> \o Report(p.event, "KeyPress", p.detail, 0, 0))

\* the button arm building the key-press variant
ButtonPressArm_AsKeyPress(data) ==
    LET p == ParseInputEvent(data) IN
    IF ~p.ok THEN Iter(TRUE, <<>>, <<ReadOp(data[1])>>)
    ELSE Iter(FALSE, p.remaining,
              <<ReadOp(data[1])>> \o Report(p.event, "KeyPress", p.detail, 0, 0))

ButtonPressArm(data) ==
    LET p == ParseInputEvent(data) IN
    IF ~p.ok THEN Iter(TRUE, <<>>, <<ReadOp(data[1])>>)
    ELSE Iter(FALSE, p.remaining,
              <<ReadOp(data[1])>> \o Report(p.event, "PointerPress", p.detail, 0, 0))

\* the motion arm with the class lookup made on the root window itself
MotionNotifyArm_ClassOfRoot(data) ==
    LET p == ParseInputEvent(data)
        active_win == get_active_window(p.root)
        asked == Op("active", "", 0, p.root,
                    IF active_win.ok THEN Some(active_win.win) ELSE None, NoEvent)
    IN  IF ~p.ok THEN Iter(TRUE, <<>>, <<ReadOp(data[1])>>)
        ELSE IF ~active_win.ok THEN Iter(TRUE, <<>>, <<ReadOp(data[1]), asked>>)
        ELSE Iter(FALSE, p.remaining,
                  <<ReadOp(data[1]), asked>> \o
                  Report(p.root, "PointerMove", 0, p.root_x, p.root_y))

MotionNotifyArm(data) ==
    LET p == ParseInputEvent(data)
        active_win == get_active_window(p.root)
        asked == Op("active", "", 0, p.root,
                    IF active_win.ok THEN Some(active_win.win) ELSE None, NoEvent)
    IN  IF ~p.ok THEN Iter(TRUE, <<>>, <<ReadOp(data[1])>>)
        ELSE IF ~active_win.ok THEN Iter(TRUE, <<>>, <<ReadOp(data[1]), asked>>)
        ELSE Iter(FALSE, p.remaining,
                  <<ReadOp(data[1]), asked>> \o
                  Report(active_win.win, "PointerMove", 0, p.root_x, p.root_y))

FocusInArm(data) ==
    LET p == ParseFocusEvent(data) IN
    IF ~p.ok THEN Iter(TRUE, <<>>, <<ReadOp(data[1])>>)
    ELSE Iter(FALSE, p.remaining,
              <<ReadOp(data[1])>> \o Report(p.event, "FocusIn", 0, 0, 0))

FocusOutArm(data) ==
    LET p == ParseFocusEvent(data) IN
    IF ~p.ok THEN Iter(TRUE, <<>>, <<ReadOp(data[1])>>)
    ELSE Iter(FALSE, p.remaining,
              <<ReadOp(data[1])>> \o Report(p.event, "FocusOut", 0, 0, 0))

\* _ => stream = &data[32..]
FallbackArm(data) ==
    IF Len(data) < EventSize THEN Iter(TRUE, <<>>, <<ReadOp(data[1])>>)
    ELSE Iter(FALSE, SliceFrom(data, EventSize), <<ReadOp(data[1])>>)

\* let data = &reply.data;
DataOf(rep, strm) == rep.data

\* the body of the while loop: match data[0] { ... }
MatchData(data) ==
    CASE data[1] = 0 -> ReplyArm(data)
      [] data[1] = KEY_PRESS_EVENT -> KeyPressArm(data)
      [] data[1] = BUTTON_PRESS_EVENT -> ButtonPressArm(data)
      [] data[1] = MOTION_NOTIFY_EVENT -> MotionNotifyArm(data)
      [] data[1] = FOCUS_IN_EVENT -> FocusInArm(data)
      [] data[1] = FOCUS_OUT_EVENT -> FocusOutArm(data)
      [] OTHER -> FallbackArm(data)

(* ---------------- derived quantities ---------------- *)
\* bytes of reply.data before the slice `stream`
Cursor == Len(reply.data) - Len(stream)

SelectOps(s, kind) == SelectSeq(s, LAMBDA o : o.op = kind)

Reads == SelectOps(ops, "read")
Sinks == SelectOps(ops, "sink")

RECURSIVE EventsOf(_)
\* the events of the "sink" entries of a trace, in order
EventsOf(s) ==
    IF s = <<>> THEN <<>>
    ELSE (IF s[1].op = "sink" THEN <<s[1].ev>> ELSE <<>>) \o EventsOf(Tail(s))

\* the end-to-end stream: start-of-stream, key press on the terminal, motion
\* on the root; "key+motion" when both records came in one reply
ScenStep(sc, u) ==
    IF u.client_swapped \/ u.cut # 0 THEN "off"
    ELSE IF sc = "none" /\ u = StartUnit THEN "start"
    ELSE IF sc = "start" /\ u.category = RECORD_FROM_SERVER /\ u.recs = <<KeyRec>>
         THEN "key"
    ELSE IF sc = "key" /\ u.category = RECORD_FROM_SERVER /\ u.recs = <<MotionRec>>
         THEN "key,motion"
    ELSE IF sc = "start" /\ u.category = RECORD_FROM_SERVER
            /\ u.recs = <<KeyRec, MotionRec>>
         THEN "key+motion"
    ELSE "off"

(* ---------------- main.rs: the sink ---------------- *)
\* str::to_lowercase on the bytes of a class name (ASCII letters; the other
\* bytes of the generated names have no case)
ToLower(s) == [i \in 1..Len(s) |-> IF s[i] >= 65 /\ s[i] <= 90 THEN s[i] + 32 ELSE s[i]]

\* str::contains
Contains(hay, needle) ==
    \E i \in 0..(Len(hay) - Len(needle)) :
        SubSeq(hay, i + 1, i + Len(needle)) = needle

\* ignored_apps = ["i3", "sway"]
IgnoredApps == {<<105, 51>>, <<115, 119, 97, 121>>}

\* the closure with the lowercasing left out
Callback_CaseSensitive(st, event) ==
    IF \E app \in IgnoredApps : Contains(event.app, app)
    THEN st
    ELSE [counter |-> st.counter + 1, locks |-> st.locks + 1]

\* the closure main passes to record(): return for an ignored app, else lock
\* the counter and add one
Callback(st, event) ==
    IF \E app \in IgnoredApps : Contains(ToLower(event.app), app)
    THEN st
    ELSE [counter |-> st.counter + 1, locks |-> st.locks + 1]

RECURSIVE CallbackAll(_, _)
\* the closure called for each event of evs in turn
CallbackAll(st, evs) ==
    IF evs = <<>> THEN st ELSE CallbackAll(Callback(st, evs[1]), Tail(evs))

(* ---------------- actions ---------------- *)
Init ==
    /\ pc = "start"
    /\ nread = 0
    /\ reply = NoReply
    /\ stream = <<>>
    /\ ops = <<>>
    /\ sink = <<>>
    /\ scen = "none"
    /\ atoms = 0
    /\ counter = 0
    /\ locks = 0
    /\ final = -1

\* the RECORD extension is present: the context is created and enabled
Startup ==
    /\ pc = "start"
    /\ pc' = "recv"
    /\ ops' = <<Op("create_context", "", 0, 0, None, NoEvent),
                Op("enable_context", "", 0, 0, None, NoEvent)>>
    /\ UNCHANGED <<nread, reply, stream, sink, scen, atoms, mainvars>>

\* the extension check without its return
NoExtension_NoReturn ==
    /\ pc = "start"
    /\ pc' = "recv"
    /\ ops' = <<LogOp("error"),
                Op("create_context", "", 0, 0, None, NoEvent),
                Op("enable_context", "", 0, 0, None, NoEvent)>>
    /\ UNCHANGED <<nread, reply, stream, sink, scen, atoms, mainvars>>

\* extension_information(..) is None: error!, return
NoExtension ==
    /\ pc = "start"
    /\ pc' = "noext"
    /\ ops' = <<LogOp("error")>>
    /\ UNCHANGED <<nread, reply, stream, sink, scen, atoms, mainvars>>

\* the chain with the category tested before client_swapped
Classify_CategoryFirst(u) ==
    IF u.category = RECORD_FROM_SERVER THEN "from_server"
    ELSE IF u.client_swapped THEN "swapped"
    ELSE IF u.category = START_OF_DATA THEN "start_of_data"
    ELSE "unsupported"

\* the chain with every category but start-of-stream decoded
Classify_DecodesAnyCategory(u) ==
    IF u.client_swapped THEN "swapped"
    ELSE IF u.category = START_OF_DATA THEN "start_of_data"
    ELSE "from_server"

\* the if / else if chain on client_swapped and category
Classify(u) ==
    IF u.client_swapped THEN "swapped"
    ELSE IF u.category = RECORD_FROM_SERVER THEN "from_server"
    ELSE IF u.category = START_OF_DATA THEN "start_of_data"
    ELSE "unsupported"

\* the next item of the stream is Ok(reply)
Take(u) ==
    /\ pc = "recv"
    /\ nread < MaxUnits
    /\ nread' = nread + 1
    /\ reply' = u
    /\ scen' = ScenStep(scen, u)
    /\ UNCHANGED <<sink, atoms, mainvars>>

RecvSwapped ==
    /\ pc = "recv"
    /\ \E u \in Units :
        /\ Take(u)
        /\ Classify(u) = "swapped"
        /\ ops' = <<LogOp("error")>>
        /\ stream' = <<>>
        /\ pc' = "recv"

\* a loop that insists on a start-of-stream marker first: a from-server
\* reply that comes first is logged and skipped
RecvFromServer_AwaitingStart ==
    /\ pc = "recv"
    /\ \E u \in Units :
        /\ Take(u)
        /\ Classify(u) = "from_server"
        /\ ops' = IF nread = 0 THEN <<LogOp("warn")>> ELSE <<>>
        /\ stream' = IF nread = 0 THEN <<>> ELSE SliceFrom(u.data, 0)
        /\ pc' = IF stream' = <<>> THEN "recv" ELSE "decode"

RecvFromServer ==
    /\ pc = "recv"
    /\ \E u \in Units :
        /\ Take(u)
        /\ Classify(u) = "from_server"
        /\ ops' = <<>>
        /\ stream' = SliceFrom(u.data, 0)
        /\ pc' = IF stream' = <<>> THEN "recv" ELSE "decode"

RecvStartOfData ==
    /\ pc = "recv"
    /\ \E u \in Units :
        /\ Take(u)
        /\ Classify(u) = "start_of_data"
        /\ ops' = <<LogOp("info")>>
        /\ stream' = <<>>
        /\ pc' = "recv"

RecvUnsupported ==
    /\ pc = "recv"
    /\ \E u \in Units :
        /\ Take(u)
        /\ Classify(u) = "unsupported"
        /\ ops' = <<LogOp("warn")>>
        /\ stream' = <<>>
        /\ pc' = "recv"

\* an Err(_) item that is logged and skipped
RecvError_Swallowed ==
    /\ pc = "recv"
    /\ pc' = "recv"
    /\ reply' = NoReply
    /\ stream' = <<>>
    /\ ops' = <<Op("err", "stream", 0, 0, None, NoEvent)>>
    /\ UNCHANGED <<nread, sink, scen, atoms, mainvars>>

\* the next item of the stream is Err(_): reply.unwrap() panics
RecvError ==
    /\ pc = "recv"
    /\ pc' = "panicked"
    /\ reply' = NoReply
    /\ stream' = <<>>
    /\ ops' = <<Op("err", "stream", 0, 0, None, NoEvent)>>
    /\ UNCHANGED <<nread, sink, scen, atoms, mainvars>>

\* the stream ends (connection closed or context disabled): record() returns
StreamEnd ==
    /\ pc = "recv"
    /\ pc' = "stopped"
    /\ UNCHANGED <<nread, reply, stream, ops, sink, scen, atoms, mainvars>>

\* the entries of one iteration, stamped with the cursor before the iteration
\* and with the offset that data starts at
Stamped(done, data) ==
    [i \in 1..Len(done) |->
        [done[i] EXCEPT !.cur = Cursor, !.at = Len(reply.data) - Len(data)]]

\* one iteration of while !stream.is_empty()
DecodeStep ==
    /\ pc = "decode"
    /\ Len(Reads) < MaxIter
    /\ \E it \in {MatchData(DataOf(reply, stream))} :
       \E done \in {Stamped(it.ops, DataOf(reply, stream))} :
       \E st \in {CallbackAll([counter |-> counter, locks |-> locks],
                              EventsOf(done))} :
           /\ ops' = ops \o done
           /\ sink' = sink \o EventsOf(done)
           /\ atoms' = atoms + Len(SelectOps(done, "active"))
           /\ counter' = st.counter
           /\ locks' = st.locks
           /\ stream' = IF it.panic THEN stream ELSE it.stream
           /\ pc' = IF it.panic THEN "panicked"
                    ELSE IF it.stream = <<>> THEN "recv" ELSE "decode"
    /\ UNCHANGED <<nread, reply, scen, final>>

\* one iteration in which a request on the control connection fails with a
\* ConnectionError: the unwrap of the q-th entry, a metadata query, panics
QueryError ==
    /\ pc = "decode"
    /\ Len(Reads) < MaxIter
    /\ \E it \in {MatchData(DataOf(reply, stream))} :
       \E done \in {Stamped(it.ops, DataOf(reply, stream))} :
       \E q \in {i \in 1..Len(done) : done[i].op \in {"active", "class"}} :
           /\ ops' = ops \o SubSeq(done, 1, q - 1)
                          \o <<[done[q] EXCEPT !.op = "err", !.lvl = done[q].op,
                                               !.res = None]>>
           /\ atoms' = atoms + Len(SelectOps(SubSeq(done, 1, q), "active"))
    /\ pc' = "panicked"
    /\ UNCHANGED <<nread, reply, stream, sink, scen, mainvars>>

\* main after thread::scope: the recording thread has returned, main locks
\* the counter and logs the count (a panic of the thread makes scope panic
\* instead)
MainCounted ==
    /\ pc \in {"stopped", "noext"}
    /\ final = -1
    /\ final' = counter
    /\ locks' = locks + 1
    /\ UNCHANGED <<pc, nread, reply, stream, ops, sink, scen, atoms, counter>>

Next ==
    \/ Startup
    \/ NoExtension
    \/ RecvSwapped
    \/ RecvFromServer
    \/ RecvStartOfData
    \/ RecvUnsupported
    \/ RecvError
    \/ StreamEnd
    \/ DecodeStep
    \/ QueryError
    \/ MainCounted

Spec == Init /\ [][Next]_vars

TypeOK ==
    /\ pc \in {"start", "recv", "decode", "stopped", "noext", "panicked"}
    /\ nread \in 0..MaxUnits
    /\ Len(stream) <= Len(reply.data)

(* ---------------- the claims ---------------- *)
\* the reply being handled is a from-server buffer of complete records
WellFormed ==
    /\ nread > 0
    /\ reply # NoReply
    /\ Classify(reply) = "from_server"
    /\ reply.cut = 0

\* every iteration so far read the record that follows the ones read before
ReadsInBufferOrder ==
    /\ Len(Reads) <= Len(reply.recs)
    /\ \A i \in 1..Len(Reads) :
          /\ i <= Len(reply.recs)
          /\ Reads[i].at = OffsetOf(reply.recs, i)
          /\ Reads[i].tag = reply.recs[i].tag

\* the while loop has ended for the reply being handled
LoopDone == pc = "recv"

\* C1: a from-server buffer of k recognized 32-byte records is decoded as
\* exactly k raw events, in buffer order, each once, and the loop ends with
\* the cursor at 32 * k.
C1_DecodesKRecords ==
    (WellFormed /\ \A i \in 1..Len(reply.recs) :
                       reply.recs[i].tag \in RecognizedTags)
    => /\ ReadsInBufferOrder
       /\ LoopDone => /\ Len(Reads) = Len(reply.recs)
                      /\ Cursor = EventSize * Len(reply.recs)

\* C2: a tag-0 reply with length field L is skipped as L*4 + 32 bytes with no
\* sink call, and the event records that trail it in the buffer are decoded.
C2_ReplySkippedThenResumes ==
    (WellFormed /\ Len(reply.recs) >= 1 /\ reply.recs[1].tag = 0
       /\ Len(Reads) >= 1)
    => /\ pc # "panicked" => Cursor >= 4 * reply.recs[1].len + EventSize
       /\ Len(Reads) = 1 /\ pc # "panicked"
             => Cursor = 4 * reply.recs[1].len + EventSize /\ Sinks = <<>>
       /\ \A i \in 1..Len(ops) : ops[i].op = "sink" => ops[i].at # 0
       /\ ReadsInBufferOrder
       /\ LoopDone => Len(Reads) = Len(reply.recs)

\* C3: a record with a tag that is neither 0 nor recognized is skipped as 32
\* bytes with no sink call, and the records that follow it are decoded.
C3_UnknownSkippedThenResumes ==
    (WellFormed /\ Len(reply.recs) >= 1
       /\ reply.recs[1].tag \notin RecognizedTags \cup {0}
       /\ Len(Reads) >= 1)
    => /\ Cursor >= EventSize
       /\ Len(Reads) = 1 => Cursor = EventSize /\ Sinks = <<>>
       /\ \A i \in 1..Len(ops) : ops[i].op = "sink" => ops[i].at # 0
       /\ ReadsInBufferOrder
       /\ LoopDone => Len(Reads) = Len(reply.recs)

\* the wire records of the current reply that the cursor has passed
RecordsConsumed == {i \in 1..Len(reply.recs) : OffsetOf(reply.recs, i + 1) <= Cursor}

\* C4: no wire record causes more than one sink call, and there are never
\* more sink calls than records consumed.
C4_OneRecordPerEvent ==
    WellFormed
    => /\ \A i, j \in 1..Len(ops) :
             (i < j /\ ops[i].op = "sink" /\ ops[j].op = "sink")
                 => ops[i].at # ops[j].at
       /\ Len(Sinks) <= Cardinality(RecordsConsumed)

\* a reply has just been taken from the stream
Taken == nread' = nread + 1

\* C5: a reply with client_swapped set is logged and skipped whatever its
\* category: no decode iteration, no metadata query, no sink call, and the
\* loop is back at the stream for the next reply.
C5_SwappedNeverDecoded ==
    [][(Taken /\ reply'.client_swapped)
          => /\ ops' = <<LogOp("error")>>
             /\ sink' = sink
             /\ stream' = <<>>
             /\ pc' = "recv"]_vars

C5_Witness ==
    /\ pc = "recv"
    /\ nread >= 2
    /\ reply.client_swapped
    /\ reply.category = RECORD_FROM_SERVER
    /\ Len(reply.data) = 2 * EventSize
    /\ ops = <<LogOp("error")>>

\* the record descriptor of the current reply that starts at byte offset a
RecAt(a) == reply.recs[CHOOSE i \in 1..Len(reply.recs) : OffsetOf(reply.recs, i) = a]

\* C6: a class lookup that yields None (no WM_CLASS, or class bytes that are
\* not text) is followed by no sink call and no error, and decoding goes on;
\* a lookup that yields Some(name) is followed at once by a sink call whose
\* event has app = name; the sink is called in no other way.
C6_AttributionGatesDelivery ==
    \A i \in 1..Len(ops) :
        /\ ops[i].op = "class" =>
              /\ ops[i].win \in {Wid.noclass, Wid.badtext} => ops[i].res = None
              /\ ops[i].win = Wid.terminal => ops[i].res = Some(Terminal)
              /\ ops[i].win = Wid.accent => ops[i].res = Some(<<67, 97, 102, 195, 169>>)
              /\ ops[i].res = None =>
                    /\ i < Len(ops) => ops[i + 1].op = "read"
                    /\ i = Len(ops) => pc \in {"recv", "decode", "stopped"}
              /\ ops[i].res # None =>
                    /\ i < Len(ops)
                    /\ ops[i + 1].op = "sink"
                    /\ ops[i + 1].ev.app = ops[i].res[1]
        /\ ops[i].op = "sink" =>
              /\ i > 1
              /\ ops[i - 1].op = "class"
              /\ ops[i - 1].res = Some(ops[i].ev.app)

C6_Witness ==
    /\ pc = "recv"
    /\ sink # <<>>
    /\ sink[Len(sink)].app = <<67, 97, 102, 195, 169>>
    /\ Len(ops) = 2
    /\ ops[2].op = "class"
    /\ ops[2].win = Wid.badtext
    /\ ops[2].res = None

\* the record was parsed: 32 bytes were there
Parsed(o) == o.op = "read" /\ Len(reply.data) - o.at >= EventSize

\* the entry is a metadata query of the given kind, answered or failed with a
\* connection error
Asks(o, kind) == o.op = kind \/ (o.op = "err" /\ o.lvl = kind)

\* C7: a motion event is attributed through one active-window lookup on its
\* root window followed by one class lookup on the window that lookup gave
\* (not on the root); key-press, button-press and focus events get one class
\* lookup on the window they carry and no active-window lookup.
C7_MotionUsesActiveWindow ==
    \A i \in 1..Len(ops) :
        /\ (Parsed(ops[i]) /\ ops[i].tag = MOTION_NOTIFY_EVENT) =>
              /\ i < Len(ops)
              /\ Asks(ops[i + 1], "active")
              /\ ops[i + 1].win = RecAt(ops[i].at).root
              /\ (ops[i + 1].op = "active" /\ ops[i + 1].win = Wid.root) =>
                    /\ i + 2 <= Len(ops)
                    /\ Asks(ops[i + 2], "class")
                    /\ ops[i + 2].win = Wid.browser
                    /\ ops[i + 2].op = "class" =>
                          /\ i + 3 <= Len(ops)
                          /\ ops[i + 3].op = "sink"
                          /\ ops[i + 3].ev.app = Browser
                          /\ i + 3 < Len(ops) => ops[i + 4].op = "read"
        /\ (Parsed(ops[i])
              /\ ops[i].tag \in RecognizedTags \ {MOTION_NOTIFY_EVENT}) =>
              /\ i < Len(ops)
              /\ Asks(ops[i + 1], "class")
              /\ ops[i + 1].win = RecAt(ops[i].at).event
              /\ \A j \in (i + 2)..Len(ops) :
                    (Asks(ops[j], "class") \/ Asks(ops[j], "active"))
                        => \E k \in (i + 1)..(j - 1) : ops[k].op = "read"
        /\ Asks(ops[i], "active") =>
              /\ i > 1
              /\ ops[i - 1].op = "read"
              /\ ops[i - 1].tag = MOTION_NOTIFY_EVENT

C7_Witness ==
    /\ pc = "recv"
    /\ Len(ops) = 4
    /\ ops[1].tag = MOTION_NOTIFY_EVENT
    /\ ops[2].op = "active"
    /\ ops[2].win = Wid.root
    /\ ops[3].win = Wid.browser
    /\ ops[4].ev = Event(Browser, "PointerMove", 0, 10, 20)
    /\ \E e \in 1..Len(sink) : sink[e].kind = "KeyPress" /\ sink[e].app = Terminal

IsPrefix(a, b) == Len(a) <= Len(b) /\ SubSeq(b, 1, Len(a)) = a

\* what the sink is to receive for the end-to-end stream
ExpectedE2E ==
    <<Event(Terminal, "KeyPress", 38, 0, 0), Event(Browser, "PointerMove", 0, 10, 20)>>

C9_StoppedOnlyAtStreamEnd ==
    [][/\ (pc' = "stopped" /\ pc # "stopped") =>
             /\ pc = "recv"
             /\ UNCHANGED <<nread, reply, stream, ops, sink, scen>>
       /\ pc = "stopped" => pc' = "stopped"
       /\ (Taken /\ ~reply'.client_swapped
             /\ reply'.category \notin {RECORD_FROM_SERVER, START_OF_DATA}) =>
             /\ ops' = <<LogOp("warn")>>
             /\ sink' = sink
             /\ stream' = <<>>
             /\ pc' = "recv"]_vars

C9_Witness ==
    /\ pc = "stopped"
    /\ nread = MaxUnits - 1
    /\ ~reply.client_swapped
    /\ reply.category = 1
    /\ reply.data # <<>>
    /\ ops = <<LogOp("warn")>>
    /\ sink = <<>>

\* C10 as stated: a first reply that is not a start-of-stream marker is
\* logged as unexpected, and the loop goes on.
C10_FirstUnitMustBeStart ==
    (nread = 1 /\ reply # NoReply /\ Classify(reply) # "start_of_data")
    => /\ \E i \in 1..Len(ops) : ops[i].op = "log"
       /\ pc # "panicked"

\* C10 amended: the loop has no AwaitingStart state. The first reply is
\* handled by the same chain as any reply: swapped -> error log and skip,
\* start-of-stream -> info log, other category -> warn log and skip, and a
\* first from-server reply is decoded without any log of its own.
C10_FirstUnitLikeAnyOther ==
    [][(nread = 0 /\ Taken) =>
          /\ reply'.client_swapped =>
                ops' = <<LogOp("error")>> /\ pc' = "recv" /\ sink' = sink
          /\ (~reply'.client_swapped /\ reply'.category = START_OF_DATA) =>
                ops' = <<LogOp("info")>> /\ pc' = "recv" /\ sink' = sink
          /\ (~reply'.client_swapped
                /\ reply'.category \notin {START_OF_DATA, RECORD_FROM_SERVER}) =>
                ops' = <<LogOp("warn")>> /\ pc' = "recv" /\ sink' = sink
          /\ (~reply'.client_swapped /\ reply'.category = RECORD_FROM_SERVER) =>
                /\ ops' = <<>>
                /\ stream' = reply'.data
                /\ pc' = IF reply'.data = <<>> THEN "recv" ELSE "decode"]_vars

\* a key press that came before any start-of-stream marker reached the sink,
\* and the loop went on to the next reply
C10_Witness ==
    /\ nread = 2
    /\ scen = "off"
    /\ Len(sink) = 1
    /\ sink[1] = Event(Terminal, "KeyPress", 38, 0, 0)
    /\ Classify(reply) = "start_of_data"
    /\ pc = "recv"

\* get_active_window failed on the unwrap of value32() or of next()
ActiveFailed(o) == o.op = "active" /\ o.res = None

\* C11 as stated: an empty or wrongly-typed _NET_ACTIVE_WINDOW is found at
\* startup, before any record is read and before any event is delivered.
C11_ActiveWindowCheckedAtStartup ==
    (ops # <<>> /\ ActiveFailed(ops[Len(ops)]))
    => /\ sink = <<>>
       /\ nread = 0

\* C11 amended: the property is read only by get_active_window, for a motion
\* event: an empty or wrongly-typed property panics record() there, before
\* any class lookup or sink call for that event, whatever was delivered
\* before; startup never reads it.
C11_ActiveWindowCheckedPerMotion ==
    /\ pc \in {"start", "noext"} => SelectOps(ops, "active") = <<>>
    /\ nread = 0 => SelectOps(ops, "active") = <<>>
    /\ \A i \in 1..Len(ops) :
          /\ ActiveFailed(ops[i]) =>
                /\ i = Len(ops)
                /\ pc = "panicked"
                /\ i > 1
                /\ ops[i - 1].op = "read"
                /\ ops[i - 1].tag = MOTION_NOTIFY_EVENT
          /\ (Parsed(ops[i]) /\ ops[i].tag = MOTION_NOTIFY_EVENT
                /\ RecAt(ops[i].at).root \in {Wid.bareroot, Wid.noclass}) =>
                /\ i + 1 = Len(ops)
                /\ pc = "panicked"
                /\ ActiveFailed(ops[i + 1]) \/ ops[i + 1].op = "err"
                /\ ops[i + 1].win = RecAt(ops[i].at).root

C11_Witness ==
    /\ pc = "panicked"
    /\ nread = 2
    /\ sink = <<Event(Terminal, "KeyPress", 38, 0, 0)>>
    /\ Len(ops) = 2
    /\ ActiveFailed(ops[2])
    /\ ops[2].win = Wid.noclass

\* C12: a transport failure (an Err item of the reply stream, a
\* ConnectionError on a metadata query) ends record() by a panic: nothing is
\* done after the failure, no reply is read and no event delivered any more,
\* and main, whose scope re-raises the panic, never logs a count.
C12_TransportFailureEndsLoop ==
    /\ [](\A i \in 1..Len(ops) :
             ops[i].op = "err" => (i = Len(ops) /\ pc = "panicked"))
    /\ [](pc = "panicked" => final = -1)
    /\ [][pc = "panicked" => UNCHANGED <<pc, nread, reply, ops, sink, final>>]_vars

C12_Witness ==
    /\ pc = "panicked"
    /\ nread = 2
    /\ sink = <<Event(Terminal, "KeyPress", 38, 0, 0)>>
    /\ Len(ops) = 3
    /\ ops[2].op = "active"
    /\ ops[3].op = "err"
    /\ ops[3].lvl = "class"
    /\ ops[3].win = Wid.browser

\* C13: when the RECORD extension is absent record() logs an error and
\* returns: no context is created or enabled, no reply is read, the sink is
\* never called, and nothing follows in record().
C13_NoExtensionAbortsStartup ==
    /\ []((nread = 0 /\ reply = NoReply /\ ops # <<>> /\ ops[1] = LogOp("error"))
            => (pc = "noext" /\ ops = <<LogOp("error")>>))
    /\ [](pc = "noext" => (nread = 0 /\ sink = <<>> /\ reply = NoReply
                            /\ ops = <<LogOp("error")>>))
    /\ [][pc = "noext" => UNCHANGED <<pc, nread, reply, stream, ops, sink>>]_vars

C13_Witness ==
    /\ pc = "noext"
    /\ ops = <<LogOp("error")>>
    /\ final = 0

\* C14: on a from-server buffer of complete units the decode loop terminates:
\* every iteration reads the tag byte at the current cursor and leaves the
\* cursor strictly further, so there are no more iterations than units, and
\* the loop is left for the next reply exactly when the cursor is at the end
\* of the buffer.
C14_DecodeLoopTerminates ==
    WellFormed
    => /\ \A i \in 1..Len(Reads) : Reads[i].at = Reads[i].cur
       /\ \A i, j \in 1..Len(Reads) : i < j => Reads[i].cur < Reads[j].cur
       /\ (Reads # <<>> /\ pc # "panicked") => Reads[Len(Reads)].cur < Cursor
       /\ Len(Reads) <= Len(reply.recs)
       /\ pc = "decode" => Cursor < Len(reply.data)
       /\ pc = "recv" => Cursor = Len(reply.data)

\* the reply being handled is a from-server buffer whose last record is cut
Truncated ==
    /\ nread > 0
    /\ reply # NoReply
    /\ Classify(reply) = "from_server"
    /\ reply.cut # 0

\* C15: a record that does not fit in its buffer is fatal: the iteration that
\* starts with the cursor on the partial record delivers no event and ends
\* the loop in the error state, and the loop never goes on to the next reply
\* to complete the record.
C15_PartialRecordIsFatal ==
    Truncated
    => /\ \A i \in 1..Len(ops) :
             ops[i].cur = OffsetOf(reply.recs, Len(reply.recs))
                => /\ pc = "panicked"
                   /\ ops[i].op # "sink"
                   /\ ops[i].op = "read" => ops[i].at = ops[i].cur
       /\ pc \in {"decode", "panicked"}

\* the entries of ops between two consecutive reads belong to one iteration:
\* entry j belongs to the iteration whose read is entry i
SameIteration(i, j) ==
    /\ i <= j
    /\ ops[i].op = "read"
    /\ \A k \in (i + 1)..j : ops[k].op # "read"

\* C16: the variant is fixed by the tag of the decoded record: key press ->
\* KeyPress(detail), button press -> PointerPress(detail), motion notify ->
\* PointerMove(root_x, root_y), focus in -> FocusIn, focus out -> FocusOut;
\* one iteration makes at most one event, and an iteration that read any
\* other tag makes none.
C16_TagToVariant ==
    \A j \in 1..Len(ops) :
        ops[j].op = "sink" =>
            \E i \in 1..j :
                /\ SameIteration(i, j)
                /\ ops[i].tag = RecAt(ops[i].at).tag
                /\ \A k \in i..Len(ops) :
                      (SameIteration(i, k) /\ ops[k].op = "sink") => k = j
                /\ LET r == RecAt(ops[i].at)
                       e == ops[j].ev
                   IN  CASE r.tag = KEY_PRESS_EVENT ->
                                e = Event(e.app, "KeyPress", r.detail, 0, 0)
                         [] r.tag = BUTTON_PRESS_EVENT ->
                                e = Event(e.app, "PointerPress", r.detail, 0, 0)
                         [] r.tag = MOTION_NOTIFY_EVENT ->
                                e = Event(e.app, "PointerMove", 0, r.x, r.y)
                         [] r.tag = FOCUS_IN_EVENT ->
                                e = Event(e.app, "FocusIn", 0, 0, 0)
                         [] r.tag = FOCUS_OUT_EVENT ->
                                e = Event(e.app, "FocusOut", 0, 0, 0)
                         [] OTHER -> FALSE

C16_Witness ==
    /\ pc = "recv"
    /\ Len(sink) = 3
    /\ sink[1] = Event(I3bar, "PointerPress", 3, 0, 0)
    /\ sink[2] = Event(Browser, "PointerMove", 0, -1, 300)
    /\ sink[3] = Event(Terminal, "KeyPress", 38, 0, 0)
    /\ reply.recs = <<KeyRec>>

\* C17: the atoms are resolved at most once in a run of record(): however many
\* active-window lookups are made, there is at most one InternAtom round.
C17_AtomsResolvedOnce == atoms <= 1

\* the reply being handled is a from-server buffer that is empty or holds
\* exactly one complete unit
Single == WellFormed /\ Len(reply.recs) <= 1

\* C18 as stated: on an empty or one-unit from-server buffer the loop makes at
\* most one iteration, calls the sink at most once, and goes on to the next
\* reply.
C18_SingleUnitProceeds ==
    Single
    => /\ Len(Reads) <= 1
       /\ Len(Sinks) <= 1
       /\ (reply.recs = <<>> \/ Len(Reads) = 1) => pc \in {"recv", "stopped"}

\* the last entry of ops is a metadata query that failed
LastQueryFailed ==
    /\ ops # <<>>
    /\ \/ ActiveFailed(ops[Len(ops)])
       \/ ops[Len(ops)].op = "err" /\ ops[Len(ops)].lvl \in {"active", "class"}

\* C18 amended: on an empty or one-unit from-server buffer the loop makes at
\* most one iteration and calls the sink at most once; it goes on to the next
\* reply unless that iteration panicked, which only a failed metadata query
\* does (no active window on the root of a motion event, or a connection
\* error), and then the sink was not called.
C18_SingleUnitProceedsUnlessPanic ==
    Single
    => /\ Len(Reads) <= 1
       /\ Len(Sinks) <= 1
       /\ (reply.recs = <<>> \/ Len(Reads) = 1)
              => pc \in {"recv", "stopped", "panicked"}
       /\ reply.recs = <<>> => pc \in {"recv", "stopped"} /\ ops = <<>>
       /\ (Len(Reads) = 1 /\ pc \in {"recv", "stopped"})
              => Cursor = Len(reply.data)
       /\ (Len(Reads) = 1 /\ pc = "panicked")
              => LastQueryFailed /\ Sinks = <<>>

C18_Witness ==
    /\ Single
    /\ nread = 2
    /\ reply.recs = <<FarMotionRec>>
    /\ pc = "recv"
    /\ Len(Reads) = 1
    /\ Len(Sinks) = 1

\* the events delivered so far that main's sink counts
Counted == SelectSeq(sink, LAMBDA e : e.app \notin {I3bar, Swaybg})

\* C19: the counter is the number of delivered events whose app is not one of
\* the window manager's (lowercased name containing "i3" or "sway"); the
\* recording thread takes the counter lock once per counted event and not at
\* all for an ignored one; main reads the count, under one more lock, only
\* once the recording thread has returned, and reads the counter's value.
C19_CounterCountsUnignored ==
    /\ counter = Len(Counted)
    /\ final = -1 => locks = counter
    /\ final # -1 => /\ pc \in {"stopped", "noext"}
                     /\ final = counter
                     /\ locks = counter + 1

C19_Witness ==
    /\ final = 1
    /\ Len(sink) = 3
    /\ sink[1].app = I3bar
    /\ sink[2].app = Terminal
    /\ sink[3].app = Swaybg
====
